---- MODULE Spec2Model ----
(***************************************************************************)
(* The chess engine of chess.js (class ChessGame and class RandomAI) as a  *)
(* state machine.  The board is the 8x8 grid this.board, a move list is    *)
(* the array the generators return (a sequence of <<row, col>>), and each  *)
(* query that writes the live board (wouldBeInCheck and everything built   *)
(* on it) is modelled by the value it returns together with the board it   *)
(* leaves behind.                                                          *)
(***************************************************************************)
EXTENDS Integers, Sequences, FiniteSets, TLC

VARIABLES board, currentPlayer, selectedCell, validMoves, moveHistory,
          gameMode, status, timers, threw, steps, clicks, window

vars == <<board, currentPlayer, selectedCell, validMoves, moveHistory,
          gameMode, status, timers, threw, steps, clicks, window>>

\* Bounds of the exploration.
MaxMoves == 4
MaxTimers == 1
MaxPlies == 3

\* The board is 8 x 8.
BoardSize == 8

Rows == 0..(BoardSize - 1)
Squares == Rows \X Rows

\* null, a piece object {type, color}, and the object {...null} = {}.
Null == [type |-> "null", color |-> "null"]
EmptyObj == [type |-> "undefined", color |-> "undefined"]
P(t, c) == [type |-> t, color |-> c]
NoCell == <<-1, -1>>

Range(s) == {s[i] : i \in 1..Len(s)}
\* The one element of a singleton: Only({e(x) : x \in {v}}) is e with x bound to
\* the value of v, computed once.
Only(S) == CHOOSE x \in S : TRUE
other(color) == IF color = "white" THEN "black" ELSE "white"

isValidPosition(row, col) == row >= 0 /\ row < BoardSize /\ col >= 0 /\ col < BoardSize

----------------------------------------------------------------------------
\* Raw move generators.

\* initializeBoard with the white king and queen on each other's square.
initializeBoardKingOnD ==
  LET black == <<"rook", "knight", "bishop", "queen", "king", "bishop", "knight", "rook">>
      white == <<"rook", "knight", "bishop", "king", "queen", "bishop", "knight", "rook">>
  IN [row \in Rows |->
        [col \in Rows |->
           CASE row = 0 -> P(black[col + 1], "black")
             [] row = 1 -> P("pawn", "black")
             [] row = 6 -> P("pawn", "white")
             [] row = 7 -> P(white[col + 1], "white")
             [] OTHER -> Null]]

initializeBoard ==
  LET back == <<"rook", "knight", "bishop", "queen", "king", "bishop", "knight", "rook">>
  IN [row \in Rows |->
        [col \in Rows |->
           CASE row = 0 -> P(back[col + 1], "black")
             [] row = 1 -> P("pawn", "black")
             [] row = 6 -> P("pawn", "white")
             [] row = 7 -> P(back[col + 1], "white")
             [] OTHER -> Null]]

getPawnMoves(b, row, col, color) ==
  LET direction == IF color = "white" THEN -1 ELSE 1
      startRow == IF color = "white" THEN 6 ELSE 1
      one == isValidPosition(row + direction, col) /\ b[row + direction][col] = Null
      forward ==
        IF one
        THEN <<(<<row + direction, col>>)>> \o
             (IF row = startRow /\ b[row + 2 * direction][col] = Null
              THEN <<(<<row + 2 * direction, col>>)>> ELSE << >>)
        ELSE << >>
      capture(colOffset) ==
        LET newRow == row + direction
            newCol == col + colOffset
        IN IF isValidPosition(newRow, newCol)
              /\ b[newRow][newCol] # Null /\ b[newRow][newCol].color # color
           THEN <<(<<newRow, newCol>>)>> ELSE << >>
  IN forward \o capture(-1) \o capture(1)

\* One ray of the loops "for i = 1 .. 7" of getRookMoves and getBishopMoves.
RECURSIVE Slide(_, _, _, _, _, _, _)
Slide(b, row, col, color, dRow, dCol, i) ==
  LET newRow == row + dRow * i
      newCol == col + dCol * i
  IN IF i >= BoardSize \/ ~isValidPosition(newRow, newCol) THEN << >>
     ELSE IF b[newRow][newCol] = Null
          THEN <<(<<newRow, newCol>>)>> \o Slide(b, row, col, color, dRow, dCol, i + 1)
          ELSE IF b[newRow][newCol].color # color THEN <<(<<newRow, newCol>>)>> ELSE << >>

getRookMoves(b, row, col, color) ==
  Slide(b, row, col, color, 0, 1, 1) \o Slide(b, row, col, color, 0, -1, 1) \o
  Slide(b, row, col, color, 1, 0, 1) \o Slide(b, row, col, color, -1, 0, 1)

getBishopMoves(b, row, col, color) ==
  Slide(b, row, col, color, 1, 1, 1) \o Slide(b, row, col, color, 1, -1, 1) \o
  Slide(b, row, col, color, -1, 1, 1) \o Slide(b, row, col, color, -1, -1, 1)

getQueenMoves(b, row, col, color) ==
  getRookMoves(b, row, col, color) \o getBishopMoves(b, row, col, color)

\* The offset loops pushing a square without asking isValidPosition first.
StepsUnguarded(b, row, col, color, offsets) ==
  SelectSeq([i \in 1..Len(offsets) |-> <<row + offsets[i][1], col + offsets[i][2]>>],
            LAMBDA m : ~isValidPosition(m[1], m[2])
                       \/ (b[m[1]][m[2]] = Null \/ b[m[1]][m[2]].color # color))

\* The offset loops of getKnightMoves and getKingMoves.
Steps(b, row, col, color, offsets) ==
  SelectSeq([i \in 1..Len(offsets) |-> <<row + offsets[i][1], col + offsets[i][2]>>],
            LAMBDA m : isValidPosition(m[1], m[2])
                       /\ (b[m[1]][m[2]] = Null \/ b[m[1]][m[2]].color # color))

\* getKnightMoves without the last offset of its table.
getKnightMovesSevenOffsets(b, row, col, color) ==
  Steps(b, row, col, color,
        << <<-2, -1>>, <<-2, 1>>, <<-1, -2>>, <<-1, 2>>,
           <<1, -2>>, <<1, 2>>, <<2, -1>> >>)

getKnightMoves(b, row, col, color) ==
  Steps(b, row, col, color,
        << <<-2, -1>>, <<-2, 1>>, <<-1, -2>>, <<-1, 2>>,
           <<1, -2>>, <<1, 2>>, <<2, -1>>, <<2, 1>> >>)

getKingMoves(b, row, col, color) ==
  Steps(b, row, col, color,
        << <<-1, -1>>, <<-1, 0>>, <<-1, 1>>, <<0, -1>>,
           <<0, 1>>, <<1, -1>>, <<1, 0>>, <<1, 1>> >>)

getValidMovesWithoutCheckTest(b, row, col) ==
  LET piece == b[row][col]
  IN CASE piece.type = "pawn" -> getPawnMoves(b, row, col, piece.color)
       [] piece.type = "rook" -> getRookMoves(b, row, col, piece.color)
       [] piece.type = "knight" -> getKnightMoves(b, row, col, piece.color)
       [] piece.type = "bishop" -> getBishopMoves(b, row, col, piece.color)
       [] piece.type = "queen" -> getQueenMoves(b, row, col, piece.color)
       [] piece.type = "king" -> getKingMoves(b, row, col, piece.color)
       [] OTHER -> << >>

----------------------------------------------------------------------------
\* Check detection and the legality filter.

\* The square with index k in the row-major scans "for row, for col".
RowOf(k) == k \div BoardSize
ColOf(k) == k % BoardSize
Cells == 0..(BoardSize * BoardSize - 1)

\* isInCheck counting only an attacker whose capture of the king would pass
\* the legality filter, that is, one not pinned to its own king.
isInCheckLegalOnly(b, color) ==
  LET attacked(bb, c) ==
        \E kq \in Squares, sq \in Squares :
          /\ bb[kq[1]][kq[2]] = P("king", c)
          /\ bb[sq[1]][sq[2]].color = other(c)
          /\ kq \in Range(getValidMovesWithoutCheckTest(bb, sq[1], sq[2]))
  IN \E kq \in Squares, sq \in Squares :
       /\ b[kq[1]][kq[2]] = P("king", color)
       /\ b[sq[1]][sq[2]].color = other(color)
       /\ kq \in Range(getValidMovesWithoutCheckTest(b, sq[1], sq[2]))
       /\ ~attacked([[b EXCEPT ![kq[1]][kq[2]] = b[sq[1]][sq[2]]]
                        EXCEPT ![sq[1]][sq[2]] = Null], other(color))

\* isInCheck answering true when the board holds no king of the colour.
isInCheckTrueWithoutKing(b, color) ==
  LET kings == {sq \in Squares : b[sq[1]][sq[2]].type = "king" /\ b[sq[1]][sq[2]].color = color}
  IN IF kings = {} THEN TRUE
     ELSE LET kingPos == CHOOSE k \in kings :
                           \A k2 \in kings : k[1] * BoardSize + k[2] <= k2[1] * BoardSize + k2[2]
              opponent == other(color)
          IN \E sq \in Squares :
                /\ b[sq[1]][sq[2]].color = opponent
                /\ \E m \in Range(getValidMovesWithoutCheckTest(b, sq[1], sq[2])) : m = kingPos

isInCheck(b, color) ==
  LET kings == {sq \in Squares : b[sq[1]][sq[2]].type = "king" /\ b[sq[1]][sq[2]].color = color}
  IN IF kings = {} THEN FALSE
     ELSE LET kingPos == CHOOSE k \in kings :
                           \A k2 \in kings : k[1] * BoardSize + k[2] <= k2[1] * BoardSize + k2[2]
              opponent == other(color)
          IN \E sq \in Squares :
                /\ b[sq[1]][sq[2]].color = opponent
                /\ \E m \in Range(getValidMovesWithoutCheckTest(b, sq[1], sq[2])) : m = kingPos

\* wouldBeInCheck asking about the other side's king.
wouldBeInCheckOfOpponent(b, fromRow, fromCol, toRow, toCol, color) ==
  LET piece == b[fromRow][fromCol]
      capturedPiece == b[toRow][toCol]
  IN Only({ [inCheck |-> isInCheck(sim, other(color)),
             board |-> [[sim EXCEPT ![fromRow][fromCol] = piece]
                          EXCEPT ![toRow][toCol] = capturedPiece]] :
            sim \in {[[b EXCEPT ![toRow][toCol] = piece] EXCEPT ![fromRow][fromCol] = Null]} })

\* wouldBeInCheck leaving the destination empty instead of putting the
\* captured piece back.
wouldBeInCheckNoRestore(b, fromRow, fromCol, toRow, toCol, color) ==
  LET piece == b[fromRow][fromCol]
  IN Only({ [inCheck |-> isInCheck(sim, color),
             board |-> [[sim EXCEPT ![fromRow][fromCol] = piece]
                          EXCEPT ![toRow][toCol] = Null]] :
            sim \in {[[b EXCEPT ![toRow][toCol] = piece] EXCEPT ![fromRow][fromCol] = Null]} })

\* wouldBeInCheck: the value returned and the board left behind.
wouldBeInCheck(b, fromRow, fromCol, toRow, toCol, color) ==
  LET piece == b[fromRow][fromCol]
      capturedPiece == b[toRow][toCol]
  IN Only({ [inCheck |-> isInCheck(sim, color),
             board |-> [[sim EXCEPT ![fromRow][fromCol] = piece]
                          EXCEPT ![toRow][toCol] = capturedPiece]] :
            sim \in {[[b EXCEPT ![toRow][toCol] = piece] EXCEPT ![fromRow][fromCol] = Null]} })

\* The filter that keeps every move.
FilterMovesKeepAll(b, row, col, color, moves, i, kept) == [moves |-> moves, board |-> b]

\* moves.filter(move => !wouldBeInCheck(...)) from the i-th raw move on; kept
\* holds the moves that passed so far.
RECURSIVE FilterMoves(_, _, _, _, _, _, _)
FilterMoves(b, row, col, color, moves, i, kept) ==
  IF i > Len(moves) THEN [moves |-> kept, board |-> b]
  ELSE Only({ FilterMoves(w.board, row, col, color, moves, i + 1,
                          IF w.inCheck THEN kept ELSE Append(kept, moves[i])) :
              w \in {wouldBeInCheck(b, row, col, moves[i][1], moves[i][2], color)} })

getValidMoves(b, row, col) ==
  IF b[row][col] = Null THEN [moves |-> << >>, board |-> b]
  ELSE Only({ FilterMoves(b, row, col, b[row][col].color, raw, 1, << >>) :
              raw \in {getValidMovesWithoutCheckTest(b, row, col)} })

\* The next cell from k on, in scan order, that holds a piece of the colour
\* (BoardSize * BoardSize when there is none): the test "piece && piece.color
\* === color" of the scans of isCheckmate and selectMove.
NextCell(b, color, k) ==
  LET hits == {j \in k..(BoardSize * BoardSize - 1) : b[RowOf(j)][ColOf(j)].color = color}
  IN IF hits = {} THEN BoardSize * BoardSize
     ELSE CHOOSE j \in hits : \A j2 \in hits : j <= j2

\* The scan of isCheckmate looking at the king alone.
CheckmateScanKingOnly(b, color, k) ==
  LET kings == {j \in Cells : b[RowOf(j)][ColOf(j)] = P("king", color)}
  IN [result |-> \A j \in kings : Len(getValidMoves(b, RowOf(j), ColOf(j)).moves) = 0,
      board |-> b]

\* The scan of isCheckmate from cell k on: the first piece of the colour
\* with a legal move ends it.
RECURSIVE CheckmateScan(_, _, _)
CheckmateScan(b, color, k) ==
  IF k >= BoardSize * BoardSize THEN [result |-> TRUE, board |-> b]
  ELSE Only({ IF Len(v.moves) > 0 THEN [result |-> FALSE, board |-> v.board]
              ELSE CheckmateScan(v.board, color, NextCell(v.board, color, k + 1)) :
              v \in {getValidMoves(b, RowOf(k), ColOf(k))} })

isCheckmate(b, color) ==
  IF ~isInCheck(b, color) THEN [result |-> FALSE, board |-> b]
  ELSE CheckmateScan(b, color, NextCell(b, color, 0))

----------------------------------------------------------------------------
\* RandomAI.selectMove: the scan that collects allMoves, from cell k on.

Pairs(from, moves) == [i \in 1..Len(moves) |-> [from |-> from, to |-> moves[i]]]

RECURSIVE CollectMoves(_, _, _, _)
CollectMoves(b, color, k, allMoves) ==
  IF k >= BoardSize * BoardSize THEN [allMoves |-> allMoves, board |-> b]
  ELSE Only({ CollectMoves(v.board, color, NextCell(v.board, color, k + 1),
                           allMoves \o Pairs(<<RowOf(k), ColOf(k)>>, v.moves)) :
              v \in {getValidMoves(b, RowOf(k), ColOf(k))} })

\* selectMove collecting the moves of the other colour.
selectMoveOfOpponent(b, color) ==
  CollectMoves(b, other(color), NextCell(b, other(color), 0), << >>)

selectMove(b, color) == CollectMoves(b, color, NextCell(b, color, 0), << >>)

----------------------------------------------------------------------------
\* The move executor.

computerColor == "black"

\* The classification without the call of isCheckmate.
ClassifyNoMate(b, opponent) ==
  [status |-> IF isInCheck(b, opponent) THEN "Check" ELSE "Normal", board |-> b]

\* The check/checkmate classification of makeMove (lines 527-539) on the
\* board b after relocation and promotion.
Classify(b, opponent) ==
  IF isInCheck(b, opponent)
  THEN Only({ [status |-> IF m.result THEN "Checkmate" ELSE "Check", board |-> m.board] :
              m \in {isCheckmate(b, opponent)} })
  ELSE [status |-> "Normal", board |-> b]

\* makeMove on board b with cp to move: the fields it writes, how many
\* callbacks it hands to setTimeout, and whether it ended in the TypeError
\* of reading piece.type of null.
makeMove(b, cp, hist, mode, fromRow, fromCol, toRow, toCol) ==
  LET piece == b[fromRow][fromCol]
      capturedPiece == b[toRow][toCol]
      hist1 == Append(hist, [from |-> <<fromRow, fromCol>>, to |-> <<toRow, toCol>>,
                             piece |-> IF piece = Null THEN EmptyObj ELSE piece,
                             capturedPiece |-> capturedPiece])
      moved == [[b EXCEPT ![toRow][toCol] = piece] EXCEPT ![fromRow][fromCol] = Null]
      promoted == IF piece.type = "pawn" /\ (toRow = 0 \/ toRow = 7)
                  THEN [moved EXCEPT ![toRow][toCol] = P("queen", piece.color)]
                  ELSE moved
      opponent == other(cp)
  IN IF piece = Null
     THEN [board |-> moved, currentPlayer |-> cp, moveHistory |-> hist1,
           status |-> "None", scheduled |-> 0, threw |-> TRUE]
     ELSE Only({
            IF c.status = "Checkmate"
            THEN [board |-> c.board, currentPlayer |-> cp, moveHistory |-> hist1,
                  status |-> c.status, scheduled |-> 0, threw |-> FALSE]
            ELSE [board |-> c.board, currentPlayer |-> opponent, moveHistory |-> hist1,
                  status |-> c.status,
                  scheduled |-> IF mode = "computer" /\ opponent = computerColor
                                THEN 1 ELSE 0,
                  threw |-> FALSE] :
            c \in {Classify(promoted, opponent)} })

----------------------------------------------------------------------------
\* Initial states: the constructor's state, and the states the listed
\* opening lines lead to when they are clicked through in human mode.

\* One click-through of the move m in the state s.
ReplayMove(s, m) ==
  Only({ [board |-> r.board, currentPlayer |-> r.currentPlayer,
          moveHistory |-> r.moveHistory,
          legal |-> /\ s.legal
                    /\ s.board[m[1]][m[2]].color = s.currentPlayer
                    /\ <<m[3], m[4]>> \in Range(v.moves)] :
         r \in {makeMove(s.board, s.currentPlayer, s.moveHistory, "human",
                         m[1], m[2], m[3], m[4])},
         v \in {getValidMoves(s.board, m[1], m[2])} })

RECURSIVE Replay(_, _)
Replay(line, n) ==
  IF n = 0
  THEN [board |-> initializeBoard, currentPlayer |-> "white", moveHistory |-> << >>,
        legal |-> TRUE]
  ELSE Only({ ReplayMove(s, line[n]) : s \in {Replay(line, n - 1)} })

\* 1.f3 e5, with the squares f2 f3 g2 g4 e1 / e7 e5 d8 h4 to click.
MateLine == << <<6, 5, 5, 5>>, <<1, 4, 3, 4>> >>
MateClicks == {<<6, 5>>, <<5, 5>>, <<6, 6>>, <<4, 6>>, <<7, 4>>,
               <<1, 4>>, <<3, 4>>, <<0, 3>>, <<4, 7>>}

\* 1.h4 a5 2.h5 a4 3.h6 a3 4.hxg7 axb2 5.Nc3 Nf6, with g7 g8 h8 f8 / b2 b1 a1 c1.
PromotionLine == << <<6, 7, 4, 7>>, <<1, 0, 3, 0>>, <<4, 7, 3, 7>>, <<3, 0, 4, 0>>,
                    <<3, 7, 2, 7>>, <<4, 0, 5, 0>>, <<2, 7, 1, 6>>, <<5, 0, 6, 1>>,
                    <<7, 1, 5, 2>>, <<0, 6, 2, 5>> >>
PromotionClicks == {<<1, 6>>, <<0, 6>>, <<0, 7>>, <<0, 5>>,
                    <<6, 1>>, <<7, 1>>, <<7, 0>>, <<7, 2>>}

\* 1.f3 e5 2.a3 Qh4+, with g2 g3 h2 e1 f2 / h4 to click.
CheckLine == << <<6, 5, 5, 5>>, <<1, 4, 3, 4>>, <<6, 0, 5, 0>>, <<0, 3, 4, 7>> >>
CheckClicks == {<<6, 6>>, <<5, 6>>, <<6, 7>>, <<7, 4>>, <<6, 5>>, <<4, 7>>}

\* 1.e4 e5 2.Bc4 Nc6 3.Qh5 Nf6, with h5 c4 / f7 e8 f6 e5 d8 e7 to click.
ScholarLine == << <<6, 4, 4, 4>>, <<1, 4, 3, 4>>, <<7, 5, 4, 2>>, <<0, 1, 2, 2>>,
                  <<7, 3, 3, 7>>, <<0, 6, 2, 5>> >>
ScholarClicks == {<<3, 7>>, <<4, 2>>, <<1, 5>>, <<0, 4>>, <<2, 5>>, <<3, 4>>,
                  <<0, 3>>, <<1, 4>>}

\* 1.e3 a5 2.Qh5 Ra6 3.Qxa5 h5 4.h4 Rah6 5.Qxc7 f6 6.Qxd7+ Kf7 7.Qxb7 Qd3
\* 8.Qxb8 Qh7 9.Qxc8 Kg6 (10.Qe6 leaves black without a move), with
\* c8 e6 d7 / g6 h7 f7 h6 to click.
StalemateLine == << <<6, 4, 5, 4>>, <<1, 0, 3, 0>>, <<7, 3, 3, 7>>, <<0, 0, 2, 0>>,
                    <<3, 7, 3, 0>>, <<1, 7, 3, 7>>, <<6, 7, 4, 7>>, <<2, 0, 2, 7>>,
                    <<3, 0, 1, 2>>, <<1, 5, 2, 5>>, <<1, 2, 1, 3>>, <<0, 4, 1, 5>>,
                    <<1, 3, 1, 1>>, <<0, 3, 5, 3>>, <<1, 1, 0, 1>>, <<5, 3, 1, 7>>,
                    <<0, 1, 0, 2>>, <<1, 5, 2, 6>> >>
StalemateClicks == {<<0, 2>>, <<2, 4>>, <<1, 3>>, <<2, 6>>, <<1, 7>>, <<1, 5>>, <<2, 7>>}

\* 1.e4 e5 2.a3 Bc5 3.a4 Qf6 4.a5 (4...Qxf2 mates), with f6 f2 f7 d8 to click.
StaleLine == << <<6, 4, 4, 4>>, <<1, 4, 3, 4>>, <<6, 0, 5, 0>>, <<0, 5, 3, 2>>,
                <<5, 0, 4, 0>>, <<0, 3, 2, 5>>, <<4, 0, 3, 0>> >>
StaleClicks == {<<2, 5>>, <<6, 5>>, <<1, 5>>, <<0, 3>>}

\* Each scenario: the line clicked through, the squares to click from there
\* on, and the setTimeout callbacks still pending.
Scenarios == << [line |-> MateLine, clicks |-> MateClicks, timers |-> 0],
                [line |-> PromotionLine, clicks |-> PromotionClicks, timers |-> 0] >>

\* 1.e4 d5 2.d4 dxe4 3.a3 e6 4.a4 Bc5 5.dxc5 Qe7 6.Qg4 a6 7.Kd1 a5 8.Bb5+
\* (8...Qd7+ answers with a check by the pinned queen), with e7 d7 b5 d1 e1
\* to click.
PinLine == << <<6, 4, 4, 4>>, <<1, 3, 3, 3>>, <<6, 3, 4, 3>>, <<3, 3, 4, 4>>,
              <<6, 0, 5, 0>>, <<1, 4, 2, 4>>, <<5, 0, 4, 0>>, <<0, 5, 3, 2>>,
              <<4, 3, 3, 2>>, <<0, 3, 1, 4>>, <<7, 3, 4, 6>>, <<1, 0, 2, 0>>,
              <<7, 4, 7, 3>>, <<2, 0, 3, 0>>, <<7, 5, 3, 1>> >>
PinClicks == {<<1, 4>>, <<1, 3>>, <<3, 1>>, <<7, 3>>, <<7, 4>>}

\* 1.e4 d5 2.exd5 e6 3.dxe6 a6 (4.exf7+ checks with the pawn, 4.e7 does
\* not), with e6 f7 e7 e8 d8 f8 to click.
PawnCheckLine == << <<6, 4, 4, 4>>, <<1, 3, 3, 3>>, <<4, 4, 3, 3>>, <<1, 4, 2, 4>>,
                    <<3, 3, 2, 4>>, <<1, 0, 2, 0>> >>
PawnCheckClicks == {<<2, 4>>, <<1, 5>>, <<1, 4>>, <<0, 4>>, <<0, 3>>, <<0, 5>>}

EngineScenarios ==
  Scenarios \o << [line |-> CheckLine, clicks |-> CheckClicks, timers |-> 0],
                  [line |-> ScholarLine, clicks |-> ScholarClicks, timers |-> 0],
                  [line |-> StalemateLine, clicks |-> StalemateClicks, timers |-> 0],
                  [line |-> PinLine, clicks |-> PinClicks, timers |-> 0],
                  [line |-> PawnCheckLine, clicks |-> PawnCheckClicks, timers |-> 0] >>

\* The state the constructor leaves, with the squares of 1.f3 e5 2.g4 Qh4 to
\* click.
NewGameScenarios == << [line |-> << >>, clicks |-> MateClicks, timers |-> 0] >>

\* A game clicked through in human mode while two callbacks of an earlier
\* game in computer mode are pending: changeGameMode('computer'), a white
\* move, undoMove, a white move, changeGameMode('human'), then the line.
StaleScenarios == << [line |-> StaleLine, clicks |-> StaleClicks, timers |-> 2] >>

\* No call of getValidMoves is on the stack.
IdleWindow ==
  [active |-> FALSE, cell |-> NoCell, raw |-> << >>, i |-> 0, kept |-> << >>,
   sim |-> FALSE, piece |-> Null, capturedPiece |-> Null]

InitFrom(scenarios) ==
  \E i \in 1..Len(scenarios) :
    \E s \in {Replay(scenarios[i].line, Len(scenarios[i].line))} :
       /\ s.legal
       /\ board = s.board
       /\ currentPlayer = s.currentPlayer
       /\ moveHistory = s.moveHistory
       /\ selectedCell = NoCell
       /\ validMoves = << >>
       /\ gameMode = "human"
       /\ status = "None"
       /\ timers = scenarios[i].timers
       /\ threw = FALSE
       /\ steps = 0
       /\ clicks = scenarios[i].clicks
       /\ window = IdleWindow

Init == InitFrom(Scenarios)

----------------------------------------------------------------------------
\* The handlers.

\* What a makeMove result r writes; t is the number of callbacks pending
\* once the caller's own callback, if any, is gone.
Applied(r, t) ==
  /\ steps < MaxMoves
  /\ t + r.scheduled <= MaxTimers
  /\ timers' = t + r.scheduled
  /\ board' = r.board
  /\ currentPlayer' = r.currentPlayer
  /\ moveHistory' = r.moveHistory
  /\ status' = IF r.threw THEN status ELSE r.status
  /\ threw' = r.threw
  /\ steps' = steps + 1

\* The deselect branch without the line that empties validMoves.
deselectKeepMoves ==
  /\ selectedCell' = NoCell
  /\ validMoves' = validMoves

\* The deselect branch of handleCellClick (lines 311-315).
deselect ==
  /\ selectedCell' = NoCell
  /\ validMoves' = << >>

\* handleCellClick without the early return of lines 292-294.
handleCellClickUnguarded(row, col) ==
  LET clickedPiece == board[row][col]
      selected == selectedCell # NoCell
      validMove == selected /\ <<row, col>> \in Range(validMoves)
      own == clickedPiece.color = currentPlayer
  IN CASE validMove ->
            \E r \in {makeMove(board, currentPlayer, moveHistory, gameMode,
                               selectedCell[1], selectedCell[2], row, col)} :
              /\ Applied(r, timers)
              /\ selectedCell' = IF r.threw THEN selectedCell ELSE NoCell
              /\ validMoves' = IF r.threw THEN validMoves ELSE << >>
              /\ UNCHANGED <<gameMode, clicks>>
       [] ~validMove /\ own ->
            /\ selectedCell' = <<row, col>>
            /\ \E v \in {getValidMoves(board, row, col)} :
                 /\ validMoves' = v.moves
                 /\ board' = v.board
            /\ threw' = FALSE
            /\ UNCHANGED <<currentPlayer, moveHistory, gameMode, status, timers,
                           steps, clicks>>
       [] ~validMove /\ ~own /\ selected ->
            /\ deselect
            /\ threw' = FALSE
            /\ UNCHANGED <<board, currentPlayer, moveHistory, gameMode, status,
                           timers, steps, clicks>>
       [] OTHER ->
            /\ threw' = FALSE
            /\ UNCHANGED <<board, currentPlayer, selectedCell, validMoves, moveHistory,
                           gameMode, status, timers, steps, clicks>>

handleCellClick(row, col) ==
  LET clickedPiece == board[row][col]
      ignored == gameMode = "computer" /\ currentPlayer = computerColor
      selected == selectedCell # NoCell
      validMove == selected /\ <<row, col>> \in Range(validMoves)
      own == clickedPiece.color = currentPlayer
  IN CASE ignored ->
            /\ threw' = FALSE
            /\ UNCHANGED <<board, currentPlayer, selectedCell, validMoves, moveHistory,
                           gameMode, status, timers, steps, clicks>>
       [] ~ignored /\ validMove ->
            \E r \in {makeMove(board, currentPlayer, moveHistory, gameMode,
                               selectedCell[1], selectedCell[2], row, col)} :
              /\ Applied(r, timers)
              /\ selectedCell' = IF r.threw THEN selectedCell ELSE NoCell
              /\ validMoves' = IF r.threw THEN validMoves ELSE << >>
              /\ UNCHANGED <<gameMode, clicks>>
       [] ~ignored /\ ~validMove /\ own ->
            /\ selectedCell' = <<row, col>>
            /\ \E v \in {getValidMoves(board, row, col)} :
                 /\ validMoves' = v.moves
                 /\ board' = v.board
            /\ threw' = FALSE
            /\ UNCHANGED <<currentPlayer, moveHistory, gameMode, status, timers,
                           steps, clicks>>
       [] ~ignored /\ ~validMove /\ ~own /\ selected ->
            /\ deselect
            /\ threw' = FALSE
            /\ UNCHANGED <<board, currentPlayer, moveHistory, gameMode, status,
                           timers, steps, clicks>>
       [] OTHER ->
            /\ threw' = FALSE
            /\ UNCHANGED <<board, currentPlayer, selectedCell, validMoves, moveHistory,
                           gameMode, status, timers, steps, clicks>>

\* The restore of undoMove reading the last record without popping it.
popMoveKeepRecord(b, cp, hist) ==
  LET lastMove == hist[Len(hist)]
  IN [board |-> [[b EXCEPT ![lastMove.from[1]][lastMove.from[2]] = lastMove.piece]
                   EXCEPT ![lastMove.to[1]][lastMove.to[2]] = lastMove.capturedPiece],
      currentPlayer |-> other(cp),
      moveHistory |-> hist]

\* undoMove on a non-empty history (lines 649-657): the fields it writes.
popMove(b, cp, hist) ==
  LET lastMove == hist[Len(hist)]
  IN [board |-> [[b EXCEPT ![lastMove.from[1]][lastMove.from[2]] = lastMove.piece]
                   EXCEPT ![lastMove.to[1]][lastMove.to[2]] = lastMove.capturedPiece],
      currentPlayer |-> other(cp),
      moveHistory |-> SubSeq(hist, 1, Len(hist) - 1)]

\* undoMove without the test for an empty history.
undoMoveUnguarded ==
  /\ moveHistory' = SubSeq(moveHistory, 1, Len(moveHistory) - 1)
  /\ board' = IF Len(moveHistory) = 0 THEN board
              ELSE popMove(board, currentPlayer, moveHistory).board
  /\ currentPlayer' = other(currentPlayer)
  /\ selectedCell' = NoCell
  /\ validMoves' = << >>
  /\ status' = "Undone"
  /\ threw' = FALSE
  /\ UNCHANGED <<gameMode, timers, steps, clicks>>

undoMove ==
  IF Len(moveHistory) = 0
  THEN /\ status' = "NoUndo"
       /\ threw' = FALSE
       /\ UNCHANGED <<board, currentPlayer, selectedCell, validMoves, moveHistory,
                      gameMode, timers, steps, clicks>>
  ELSE \E u \in {popMove(board, currentPlayer, moveHistory)} :
          /\ moveHistory' = u.moveHistory
          /\ board' = u.board
          /\ currentPlayer' = u.currentPlayer
          /\ selectedCell' = NoCell
          /\ validMoves' = << >>
          /\ status' = "Undone"
          /\ threw' = FALSE
          /\ UNCHANGED <<gameMode, timers, steps, clicks>>

\* resetGame without the line that empties moveHistory.
ResetKeepHistory(message) ==
  /\ board' = initializeBoard
  /\ currentPlayer' = "white"
  /\ selectedCell' = NoCell
  /\ validMoves' = << >>
  /\ moveHistory' = moveHistory
  /\ status' = message
  /\ threw' = FALSE

\* The fields resetGame writes.
Reset(message) ==
  /\ board' = initializeBoard
  /\ currentPlayer' = "white"
  /\ selectedCell' = NoCell
  /\ validMoves' = << >>
  /\ moveHistory' = << >>
  /\ status' = message
  /\ threw' = FALSE

resetGame ==
  /\ Reset("Reset")
  /\ UNCHANGED <<gameMode, timers, steps, clicks>>

changeGameMode(mode) ==
  /\ gameMode' = mode
  /\ Reset(IF mode = "computer" THEN "StartedComputer" ELSE "StartedHuman")
  /\ UNCHANGED <<timers, steps, clicks>>

\* A callback handed to setTimeout by makeMove runs.
\* makeComputerMove passing the turn when the strategy returns no move.
makeComputerMovePassTurn ==
  /\ timers > 0
  /\ IF currentPlayer # computerColor
     THEN /\ timers' = timers - 1
          /\ threw' = FALSE
          /\ UNCHANGED <<board, currentPlayer, selectedCell, validMoves, moveHistory,
                         gameMode, status, steps, clicks>>
     ELSE \E s \in {selectMove(board, computerColor)} :
            IF Len(s.allMoves) > 0
            THEN \E i \in 1..Len(s.allMoves) :
                   /\ s.allMoves[i].from \in clicks
                   /\ s.allMoves[i].to \in clicks
                   /\ \E r \in {makeMove(s.board, currentPlayer, moveHistory, gameMode,
                                         s.allMoves[i].from[1], s.allMoves[i].from[2],
                                         s.allMoves[i].to[1], s.allMoves[i].to[2])} :
                        Applied(r, timers - 1)
                   /\ UNCHANGED <<selectedCell, validMoves, gameMode, clicks>>
            ELSE /\ timers' = timers - 1
                 /\ board' = s.board
                 /\ currentPlayer' = other(currentPlayer)
                 /\ status' = "NoValidMoves"
                 /\ threw' = FALSE
                 /\ UNCHANGED <<selectedCell, validMoves, moveHistory,
                                gameMode, steps, clicks>>

makeComputerMove ==
  /\ timers > 0
  /\ IF currentPlayer # computerColor
     THEN /\ timers' = timers - 1
          /\ threw' = FALSE
          /\ UNCHANGED <<board, currentPlayer, selectedCell, validMoves, moveHistory,
                         gameMode, status, steps, clicks>>
     ELSE \E s \in {selectMove(board, computerColor)} :
            IF Len(s.allMoves) > 0
            THEN \E i \in 1..Len(s.allMoves) :
                   /\ s.allMoves[i].from \in clicks
                   /\ s.allMoves[i].to \in clicks
                   /\ \E r \in {makeMove(s.board, currentPlayer, moveHistory, gameMode,
                                         s.allMoves[i].from[1], s.allMoves[i].from[2],
                                         s.allMoves[i].to[1], s.allMoves[i].to[2])} :
                        Applied(r, timers - 1)
                   /\ UNCHANGED <<selectedCell, validMoves, gameMode, clicks>>
            ELSE /\ timers' = timers - 1
                 /\ board' = s.board
                 /\ status' = "NoValidMoves"
                 /\ threw' = FALSE
                 /\ UNCHANGED <<currentPlayer, selectedCell, validMoves, moveHistory,
                                gameMode, steps, clicks>>

\* Each handler runs to completion: the steps below are whole handlers, and
\* the calls they make have returned when they end.
Next ==
  \/ \E sq \in clicks : handleCellClick(sq[1], sq[2]) /\ UNCHANGED window
  \/ undoMove /\ UNCHANGED window
  \/ resetGame /\ UNCHANGED window
  \/ \E mode \in {"human", "computer"} : changeGameMode(mode) /\ UNCHANGED window
  \/ makeComputerMove /\ UNCHANGED window

Spec == Init /\ [][Next]_vars

----------------------------------------------------------------------------
\* The engine alone, driven as its callers drive it in human mode: a piece
\* of the side to move is selected (handleCellClick on from) and one of its
\* legal moves is applied (handleCellClick on to).

playMove(from, to) ==
  /\ steps < MaxPlies
  /\ board[from[1]][from[2]].color = currentPlayer
  /\ \E v \in {getValidMoves(board, from[1], from[2])} :
       /\ to \in Range(v.moves)
       /\ \E r \in {makeMove(v.board, currentPlayer, moveHistory, gameMode,
                             from[1], from[2], to[1], to[2])} : Applied(r, timers)
  /\ UNCHANGED <<selectedCell, validMoves, gameMode, clicks>>

EngineInit == InitFrom(EngineScenarios)

EngineNext ==
  \E from \in clicks, to \in clicks : playMove(from, to) /\ UNCHANGED window

EngineSpec == EngineInit /\ [][EngineNext]_vars

----------------------------------------------------------------------------
\* The handlers again, from a game that callbacks of an earlier game outlive.

StaleInit == InitFrom(StaleScenarios)

\* The handlers from the state the constructor leaves.
NewGameInit == InitFrom(NewGameScenarios)

NewGameSpec == NewGameInit /\ [][Next]_vars

StaleSpec == StaleInit /\ [][Next]_vars


----------------------------------------------------------------------------
\* Properties.

Occupied == {k \in Cells : board[RowOf(k)][ColOf(k)] # Null}
ColorAt(k) == board[RowOf(k)][ColOf(k)].color
Raw(k) == getValidMovesWithoutCheckTest(board, RowOf(k), ColOf(k))
Legal(k) == getValidMoves(board, RowOf(k), ColOf(k)).moves
Kings(color) == {k \in Cells : board[RowOf(k)][ColOf(k)] = P("king", color)}

\* C1: King safety. For every occupied square, every destination that
\* getValidMoves returns, applied with makeMove, leaves the mover's own king
\* not attacked.
C1_KingSafety ==
  \A k \in Occupied :
    \A to \in Range(Legal(k)) :
      ~isInCheck(makeMove(board, ColorAt(k), moveHistory, gameMode,
                          RowOf(k), ColOf(k), to[1], to[2]).board, ColorAt(k))

\* After a move, a side in check one of whose pieces has a move that answers
\* the check.
C1_Witness ==
  steps > 0 /\ \E k \in Occupied : isInCheck(board, ColorAt(k)) /\ Legal(k) # << >>

\* C2: Turn alternation. Every makeMove call that returns flips
\* currentPlayer, checkmate included.
C2_TurnAlternation ==
  [][steps' # steps /\ ~threw' => currentPlayer' # currentPlayer]_vars

\* C3: Round trip. For every legal move of the side to move, makeMove
\* followed by undoMove gives back the board, the side to move and the
\* length of the history.
C3_RoundTrip ==
  \A k \in Occupied :
    ColorAt(k) = currentPlayer =>
      \A to \in Range(Legal(k)) :
        \A r \in {makeMove(board, currentPlayer, moveHistory, gameMode,
                           RowOf(k), ColOf(k), to[1], to[2])} :
          \A u \in {popMove(r.board, r.currentPlayer, r.moveHistory)} :
             /\ u.board = board
             /\ u.currentPlayer = currentPlayer
             /\ Len(u.moveHistory) = Len(moveHistory)

\* C4: Kings are never captured. The board holds exactly one white king and
\* exactly one black king.
C4_KingsNeverCaptured ==
  Cardinality(Kings("white")) = 1 /\ Cardinality(Kings("black")) = 1

\* C5: Callers meet the precondition of makeMove. At every makeMove call the
\* from-square holds a piece of currentPlayer and the to-square is one of
\* getValidMoves(from) on the board of that moment.
C5_Precondition ==
  [][steps' # steps =>
       LET rec == moveHistory'[Len(moveHistory')]
       IN /\ board[rec.from[1]][rec.from[2]].color = currentPlayer
          /\ rec.to \in Range(getValidMoves(board, rec.from[1], rec.from[2]).moves)]_vars

RECURSIVE UndoAll(_)
UndoAll(s) ==
  IF Len(s.moveHistory) = 0 THEN s
  ELSE UndoAll(popMove(s.board, s.currentPlayer, s.moveHistory))

\* C6: Full rollback. undoMove repeated until the history is empty restores
\* the opening board with white to move.
C6_FullRollback ==
  \A u \in {UndoAll([board |-> board, currentPlayer |-> currentPlayer,
                     moveHistory |-> moveHistory])} :
     u.board = initializeBoard /\ u.currentPlayer = "white"

\* C7: undoMove with an empty history changes no game state and throws
\* nothing; it only reports a status message.
C7_UndoEmptyHistory ==
  [][undoMove /\ Len(moveHistory) = 0 =>
       /\ UNCHANGED <<board, currentPlayer, moveHistory, selectedCell, validMoves>>
       /\ status' = "NoUndo"
       /\ ~threw']_vars

\* undoMove has run on an empty history while a piece was selected.
C7_Witness ==
  status = "NoUndo" /\ Len(moveHistory) = 0 /\ selectedCell # NoCell

\* C8: getValidMoves returns exactly the raw moves whose wouldBeInCheck is
\* false, and nothing for an empty square.
C8_LegalIsRawMinusExposing ==
  \A k \in Cells :
    Legal(k) = IF k \in Occupied
               THEN SelectSeq(Raw(k),
                              LAMBDA to : ~wouldBeInCheck(board, RowOf(k), ColOf(k),
                                                          to[1], to[2], ColorAt(k)).inCheck)
               ELSE << >>

\* After a move, a piece that loses a raw move to the filter and keeps
\* another.
C8_Witness ==
  steps > 0 /\ \E k \in Occupied : Len(Legal(k)) > 0 /\ Len(Legal(k)) < Len(Raw(k))

\* C9: Queries do not change the board. wouldBeInCheck, getValidMoves and
\* isCheckmate leave every square as it was.
C9_QueriesKeepBoard ==
  /\ \A k \in Occupied :
       /\ getValidMoves(board, RowOf(k), ColOf(k)).board = board
       /\ \A to \in Range(Raw(k)) :
            wouldBeInCheck(board, RowOf(k), ColOf(k), to[1], to[2], ColorAt(k)).board = board
  /\ \A color \in {"white", "black"} : isCheckmate(board, color).board = board

\* After a move, a raw move that captures, so that the simulation takes a
\* piece off.
C9_Witness ==
  steps > 0 /\ \E k \in Occupied : \E to \in Range(Raw(k)) : board[to[1]][to[2]] # Null

\* C10: isCheckmate(colour) is true exactly when the colour is in check and
\* no piece of the colour has a legal move.
C10_CheckmateIffCheckAndNoMove ==
  \A color \in {"white", "black"} :
    isCheckmate(board, color).result =
      (/\ isInCheck(board, color)
       /\ \A k \in Occupied : ColorAt(k) = color => Legal(k) = << >>)

\* A checkmate, and a check that only a piece other than the king answers.
C10_Witness ==
  \E color \in {"white", "black"} : isCheckmate(board, color).result

C10_WitnessBlock ==
  steps > 0 /\ \E color \in {"white", "black"} :
    /\ isInCheck(board, color)
    /\ \A k \in Kings(color) : Legal(k) = << >>
    /\ ~isCheckmate(board, color).result

\* Some piece of color has a legal move on the board b.
HasLegalMove(b, color) ==
  \E k \in Cells :
    /\ b[RowOf(k)][ColOf(k)].color = color
    /\ getValidMoves(b, RowOf(k), ColOf(k)).moves # << >>

\* The last record of the history.
LastMove == moveHistory[Len(moveHistory)]

\* C11: Outcome classification. Every makeMove that returns reports
\* Checkmate iff the mover's opponent is in check without a legal move, Check
\* iff it is in check with a legal move and Normal iff it is not in check, on
\* the board after relocation and promotion.
C11_OutcomeClassification ==
  [][steps' # steps /\ ~threw' =>
       status' = IF isInCheck(board', other(currentPlayer))
                 THEN IF HasLegalMove(board', other(currentPlayer))
                      THEN "Check" ELSE "Checkmate"
                 ELSE "Normal"]_vars

\* A pawn has just promoted and the new queen gives check.
C11_Witness ==
  /\ steps > 0
  /\ status = "Check"
  /\ LastMove.piece.type = "pawn"
  /\ LastMove.to[1] \in {0, BoardSize - 1}

\* The moves of a history as <<fromRow, fromCol, toRow, toCol>>.
HistoryMoves(h) ==
  [i \in 1..Len(h) |-> <<h[i].from[1], h[i].from[2], h[i].to[1], h[i].to[2]>>]

\* 1.f3 e5 2.g4 Qh4.
FoolsMateLine == MateLine \o << <<6, 6, 4, 6>>, <<0, 3, 4, 7>> >>

\* C12: Fool's mate. When f2-f3, e7-e5, g2-g4, Qd8-h4 have been applied from
\* the opening position, the fourth makeMove reports Checkmate and
\* getValidMoves is empty for every white piece, the king included.
C12_FoolsMate ==
  [][/\ steps' # steps
     /\ currentPlayer = "black"
     /\ HistoryMoves(moveHistory') = FoolsMateLine
     /\ board = Replay(FoolsMateLine, 3).board
     => /\ status' = "Checkmate"
        /\ ~threw'
        /\ Cardinality({k \in Cells : board'[RowOf(k)][ColOf(k)].color = "white"}) = 16
        /\ \A k \in Cells :
              board'[RowOf(k)][ColOf(k)].color = "white"
                => getValidMoves(board', RowOf(k), ColOf(k)).moves = << >>]_vars

\* The four moves have been applied and the last one was reported.
C12_Witness ==
  /\ steps > 0
  /\ HistoryMoves(moveHistory) = FoolsMateLine
  /\ board[4][7] = P("queen", "black")
  /\ status = "Checkmate"

\* C13: Promotion. Every makeMove that returns leaves on the destination a
\* queen of the mover's colour when it moved a pawn onto its farthest rank
\* (row 0 for white, row 7 for black), and the moved piece itself otherwise.
C13_Promotion ==
  [][steps' # steps /\ ~threw' =>
       LET rec == moveHistory'[Len(moveHistory')]
           farthest == IF rec.piece.color = "white" THEN 0 ELSE BoardSize - 1
       IN board'[rec.to[1]][rec.to[2]] =
            IF rec.piece.type = "pawn" /\ rec.to[1] = farthest
            THEN P("queen", rec.piece.color)
            ELSE rec.piece]_vars

\* The number of squares of b holding the piece of type t and colour c.
Count(b, t, c) == Cardinality({sq \in Squares : b[sq[1]][sq[2]] = P(t, c)})

\* The standard opening layout.
OpeningLayout(b) ==
  /\ \A c \in {"white", "black"} :
       /\ Count(b, "pawn", c) = 8
       /\ Count(b, "rook", c) = 2
       /\ Count(b, "knight", c) = 2
       /\ Count(b, "bishop", c) = 2
       /\ Count(b, "queen", c) = 1
       /\ Count(b, "king", c) = 1
  /\ \A sq \in Squares :
       b[sq[1]][sq[2]].color = CASE sq[1] \in {0, 1} -> "black"
                                 [] sq[1] \in {6, 7} -> "white"
                                 [] OTHER -> "null"
  /\ \A row \in 2..5 : \A col \in Rows : b[row][col] = Null
  /\ \A col \in Rows :
       /\ b[1][col].type = "pawn"
       /\ b[6][col].type = "pawn"
       /\ b[0][col].type = b[7][col].type
  /\ b[0][0].type = "rook" /\ b[0][1].type = "knight" /\ b[0][2].type = "bishop"
  /\ b[0][3].type = "queen" /\ b[0][4].type = "king"

NewGameState ==
  /\ OpeningLayout(board)
  /\ currentPlayer = "white"
  /\ moveHistory = << >>
  /\ selectedCell = NoCell
  /\ validMoves = << >>

\* C14: Initial state. The state the constructor leaves has the standard
\* opening layout, white to move, an empty history and no selection.
C14_InitialState == NewGameState /\ [][TRUE]_vars

\* The new game before any handler has run.
C14_Witness ==
  /\ status = "None"
  /\ steps = 0
  /\ Len(moveHistory) = 0
  /\ selectedCell = NoCell
  /\ board[7][4] = P("king", "white")

\* C15: resetGame, and changeGameMode for either mode, leave the initial
\* state: the opening board, white to move, an empty history, no selection
\* and no valid moves.
C15_ResetGivesInitialState ==
  [][resetGame \/ changeGameMode("human") \/ changeGameMode("computer")
       => NewGameState']_vars

\* resetGame has run after moves were applied.
C15_Witness ==
  status = "Reset" /\ steps > 0 /\ Len(moveHistory) = 0

\* C16: History accounting. A makeMove appends exactly one record, checkmate
\* included; undoMove on a non-empty history removes exactly the last one;
\* resetGame and changeGameMode empty the history; every other step leaves
\* it as it is.
C16_HistoryAccounting ==
  [][LET n == Len(moveHistory)
         resets == resetGame \/ changeGameMode("human") \/ changeGameMode("computer")
     IN /\ steps' # steps =>
             Len(moveHistory') = n + 1 /\ SubSeq(moveHistory', 1, n) = moveHistory
        /\ undoMove /\ n > 0 => moveHistory' = SubSeq(moveHistory, 1, n - 1)
        /\ resets => moveHistory' = << >>
        /\ steps' = steps /\ ~(undoMove /\ n > 0) /\ ~resets =>
             moveHistory' = moveHistory]_vars

\* A checkmating move has been recorded on top of three others.
C16_Witness ==
  status = "Checkmate" /\ steps = 2 /\ Len(moveHistory) = 4

\* C17: An illegal destination is ignored. A click, while a piece is
\* selected, on a square that is not in validMoves leaves the board, the side
\* to move and the history alone and throws nothing; the selection moves to
\* the clicked square when it holds a piece of the side to move and is
\* cleared otherwise.
C17_IllegalDestinationIgnored ==
  [][\A sq \in clicks :
       selectedCell # NoCell /\ sq \notin Range(validMoves)
       /\ selectedCell' \in {sq, NoCell, selectedCell}
       /\ handleCellClick(sq[1], sq[2])
       => /\ UNCHANGED <<board, currentPlayer, moveHistory>>
          /\ ~threw'
          /\ IF board[sq[1]][sq[2]] # Null /\ board[sq[1]][sq[2]].color = currentPlayer
             THEN /\ selectedCell' = sq
                  /\ validMoves' = getValidMoves(board, sq[1], sq[2]).moves
             ELSE /\ selectedCell' = NoCell
                  /\ validMoves' = << >>]_vars

\* A piece is selected and a square outside its moves, holding a piece of the
\* other side, can be clicked.
C17_Witness ==
  /\ selectedCell # NoCell
  /\ steps > 0
  /\ \E sq \in clicks :
       /\ sq \notin Range(validMoves)
       /\ board[sq[1]][sq[2]].color = other(currentPlayer)

\* C18: Selection is ephemeral. After every makeMove that returns, whether a
\* click or the computer made it, after every undoMove that pops and after
\* every resetGame, selectedCell is null and validMoves is empty.
C18_SelectionEphemeral ==
  [][\/ steps' # steps /\ ~threw'
     \/ undoMove /\ Len(moveHistory) > 0
     \/ resetGame
     => selectedCell' = NoCell /\ validMoves' = << >>]_vars

Abs(x) == IF x < 0 THEN -x ELSE x
Sgn(x) == IF x < 0 THEN -1 ELSE IF x > 0 THEN 1 ELSE 0

\* The piece of b on from attacks the square to by the rules of chess: a pawn
\* one step diagonally forward, a knight by its jump, a king next to it, a
\* rook, bishop or queen along a free line.
Attacks(b, from, to) ==
  LET piece == b[from[1]][from[2]]
      dr == to[1] - from[1]
      dc == to[2] - from[2]
      n == IF Abs(dr) > Abs(dc) THEN Abs(dr) ELSE Abs(dc)
      free == \A i \in 1..(n - 1) : b[from[1] + i * Sgn(dr)][from[2] + i * Sgn(dc)] = Null
      straight == (dr = 0 \/ dc = 0) /\ n > 0 /\ free
      diagonal == Abs(dr) = Abs(dc) /\ n > 0 /\ free
  IN CASE piece.type = "pawn" ->
            dr = (IF piece.color = "white" THEN -1 ELSE 1) /\ Abs(dc) = 1
       [] piece.type = "knight" -> {Abs(dr), Abs(dc)} = {1, 2}
       [] piece.type = "king" -> n = 1
       [] piece.type = "rook" -> straight
       [] piece.type = "bishop" -> diagonal
       [] piece.type = "queen" -> straight \/ diagonal
       [] OTHER -> FALSE

\* C19: isInCheck(colour) is true exactly when the square of the colour's
\* king is a destination among the raw moves of a piece of the other colour,
\* which is when such a piece attacks it by the rules of chess, pinned or
\* not, a pawn along its capture diagonals only.
C19_CheckIffRawAttack ==
  \A color \in {"white", "black"} :
    \A kp \in {<<RowOf(k), ColOf(k)>> : k \in Kings(color)} :
      /\ isInCheck(board, color) =
           (\E k \in Occupied : ColorAt(k) = other(color) /\ kp \in Range(Raw(k)))
      /\ isInCheck(board, color) =
           (\E k \in Occupied : /\ ColorAt(k) = other(color)
                                /\ Attacks(board, <<RowOf(k), ColOf(k)>>, kp))

\* A king in check from a piece that is pinned to its own king: taking the
\* king would not pass the legality filter.
C19_Witness ==
  /\ steps > 0
  /\ \E color \in {"white", "black"} :
       \E kp \in {<<RowOf(k), ColOf(k)>> : k \in Kings(color)} :
         \E k \in Occupied :
           /\ ColorAt(k) = other(color)
           /\ kp \in Range(Raw(k))
           /\ kp \notin Range(Legal(k))

\* The squares a pawn of the colour on (row, col) may go to: one step
\* forward when empty, two steps from the start row when both are empty,
\* one step diagonally forward onto a piece of the other colour.
PawnTargets(b, row, col, color) ==
  LET fwd == IF color = "white" THEN -1 ELSE 1
      start == IF color = "white" THEN 6 ELSE 1
      empty(sq) == sq \in Squares /\ b[sq[1]][sq[2]] = Null
  IN {sq \in Squares :
        \/ sq = <<row + fwd, col>> /\ empty(sq)
        \/ /\ sq = <<row + 2 * fwd, col>>
           /\ row = start
           /\ empty(<<row + fwd, col>>)
           /\ empty(sq)
        \/ /\ sq[1] = row + fwd
           /\ sq[2] \in {col - 1, col + 1}
           /\ b[sq[1]][sq[2]].color = other(color)}

\* C20: Raw pawn moves. getPawnMoves returns, each once, exactly the
\* one-step square when empty, the two-step square from the start row when
\* both squares are empty, and the forward diagonals that hold a piece of the
\* other colour.
C20_RawPawnMoves ==
  \A k \in Occupied :
    board[RowOf(k)][ColOf(k)].type = "pawn" =>
      \A moves \in {getPawnMoves(board, RowOf(k), ColOf(k), ColorAt(k))} :
        /\ Range(moves) = PawnTargets(board, RowOf(k), ColOf(k), ColorAt(k))
        /\ Len(moves) = Cardinality(Range(moves))

Orthogonal == {<<0, 1>>, <<0, -1>>, <<1, 0>>, <<-1, 0>>}
Diagonal == {<<1, 1>>, <<1, -1>>, <<-1, 1>>, <<-1, -1>>}

\* The squares of the ray from (row, col) in direction d that a piece of the
\* colour may go to: the empty squares up to the first occupied one, and that
\* one when it holds a piece of the other colour.
RayTargets(b, row, col, color, d) ==
  {sq \in Squares :
     \E i \in 1..(BoardSize - 1) :
       /\ sq = <<row + i * d[1], col + i * d[2]>>
       /\ \A j \in 1..(i - 1) : b[row + j * d[1]][col + j * d[2]] = Null
       /\ (b[sq[1]][sq[2]] = Null \/ b[sq[1]][sq[2]].color = other(color))}

SlideTargets(b, row, col, color, dirs) ==
  UNION {RayTargets(b, row, col, color, d) : d \in dirs}

\* C21: Raw sliding moves. On every ray a rook (orthogonal), a bishop
\* (diagonal) and a queen (both) get the empty squares up to the first
\* occupied square, that square iff it holds a piece of the other colour, and
\* nothing beyond; the queen's moves are the rook's and the bishop's from the
\* same square together.
C21_RawSlidingMoves ==
  \A k \in Occupied :
    LET row == RowOf(k)
        col == ColOf(k)
        color == ColorAt(k)
        type == board[row][col].type
    IN type \in {"rook", "bishop", "queen"} =>
         \A rook \in {getRookMoves(board, row, col, color)},
            bishop \in {getBishopMoves(board, row, col, color)} :
           /\ Range(rook) = SlideTargets(board, row, col, color, Orthogonal)
           /\ Range(bishop) = SlideTargets(board, row, col, color, Diagonal)
           /\ Len(rook) = Cardinality(Range(rook))
           /\ Len(bishop) = Cardinality(Range(bishop))
           /\ Range(getQueenMoves(board, row, col, color)) = Range(rook) \cup Range(bishop)
           /\ Range(Raw(k)) = CASE type = "rook" -> Range(rook)
                                 [] type = "bishop" -> Range(bishop)
                                 [] OTHER -> Range(rook) \cup Range(bishop)

\* A board that holds one knight and nothing else; the knight's side is to move.
LoneKnightBoard(sq, color) ==
  [r \in Rows |-> [c \in Rows |-> IF <<r, c>> = sq THEN P("knight", color) ELSE Null]]

KnightInit ==
  \E sq \in Squares, color \in {"white", "black"} :
    /\ board = LoneKnightBoard(sq, color)
    /\ currentPlayer = color
    /\ moveHistory = << >>
    /\ selectedCell = NoCell
    /\ validMoves = << >>
    /\ gameMode = "human"
    /\ status = "None"
    /\ timers = 0
    /\ threw = FALSE
    /\ steps = 0
    /\ clicks = Squares
    /\ window = IdleWindow

KnightNext == \E sq \in Squares : handleCellClick(sq[1], sq[2]) /\ UNCHANGED window

KnightSpec == KnightInit /\ [][KnightNext]_vars

KnightTargets(row, col) ==
  {<<row + dr, col + dc>> : dr \in {-2, -1, 1, 2}, dc \in {-2, -1, 1, 2}}
    \cap {sq \in Squares : {Abs(sq[1] - row), Abs(sq[2] - col)} = {1, 2}}

\* C22: Knight on an otherwise empty board. For every square (r, c),
\* getValidMoves of a lone knight on (r, c) is exactly the set of squares
\* (r+dr, c+dc) with (|dr|, |dc|) in {(1,2), (2,1)} inside rows and columns
\* 0..7; a click on the knight lists exactly these squares.
C22_LoneKnight ==
  \A k \in Occupied :
    (Occupied = {k} /\ board[RowOf(k)][ColOf(k)].type = "knight") =>
      \A v \in {Legal(k)} :
        /\ Range(v) = KnightTargets(RowOf(k), ColOf(k))
        /\ Len(v) = Cardinality(Range(v))
        /\ selectedCell = <<RowOf(k), ColOf(k)>> => validMoves = v

C22_Witness ==
  /\ \E sq \in Squares : board = LoneKnightBoard(sq, "white")
  /\ selectedCell = <<7, 6>>
  /\ Range(validMoves) = {<<5, 5>>, <<5, 7>>, <<6, 4>>}

\* The cells this.board[..][..] that getPawnMoves indexes: the square ahead and
\* the two diagonals behind isValidPosition, the square two ahead behind
\* "row === startRow" alone.
PawnReads(b, row, col, color) ==
  LET direction == IF color = "white" THEN -1 ELSE 1
      startRow == IF color = "white" THEN 6 ELSE 1
      one == isValidPosition(row + direction, col)
  IN (IF one THEN {<<row + direction, col>>} ELSE {})
       \cup (IF one /\ b[row + direction][col] = Null /\ row = startRow
             THEN {<<row + 2 * direction, col>>} ELSE {})
       \cup {<<row + direction, col + colOffset>> : colOffset \in
               {o \in {-1, 1} : isValidPosition(row + direction, col + o)}}

\* The cells a sliding loop indexes on its rays: square i is read when no
\* earlier square of the ray made the loop break.
SlideReads(b, row, col, dirs) ==
  {<<row + d[1] * i, col + d[2] * i>> : <<d, i>> \in
     {x \in dirs \X (1..(BoardSize - 1)) :
        \A j \in 1..x[2] :
          /\ isValidPosition(row + x[1][1] * j, col + x[1][2] * j)
          /\ j < x[2] => b[row + x[1][1] * j][col + x[1][2] * j] = Null}}

\* The cells an offset loop (knight, king) indexes.
StepReads(row, col, offsets) ==
  {<<row + o[1], col + o[2]>> : o \in
     {x \in offsets : isValidPosition(row + x[1], col + x[2])}}

KnightOffsets ==
  {<<dr, dc>> \in {-2, -1, 1, 2} \X {-2, -1, 1, 2} : {Abs(dr), Abs(dc)} = {1, 2}}

\* C23: Bounds. For every occupied square, every destination returned by any
\* raw move generator (pawn, knight, bishop, rook, queen, king) and by
\* getValidMoves has row and column in 0..7, and no generator indexes a board
\* cell outside the 8x8 grid.
C23_Bounds ==
  \A k \in Occupied :
    LET row == RowOf(k)
        col == ColOf(k)
        color == ColorAt(k)
    IN /\ Range(getKnightMoves(board, row, col, color)) \subseteq Squares
       /\ Range(getKingMoves(board, row, col, color)) \subseteq Squares
       /\ Range(getPawnMoves(board, row, col, color)) \subseteq Squares
       /\ Range(getQueenMoves(board, row, col, color)) \subseteq Squares
       /\ Range(Raw(k)) \subseteq Squares
       /\ PawnReads(board, row, col, color) \subseteq Squares
       /\ SlideReads(board, row, col, Orthogonal \cup Diagonal) \subseteq Squares
       /\ StepReads(row, col, KnightOffsets) \subseteq Squares
       /\ StepReads(row, col, (Orthogonal \cup Diagonal)) \subseteq Squares
       /\ Range(Legal(k)) \subseteq Squares

\* A knight and a king on the edge and a pawn on its start row, after a move.
C23_Witness ==
  /\ steps > 0
  /\ \E k \in Occupied :
       /\ board[RowOf(k)][ColOf(k)].type = "knight"
       /\ RowOf(k) \in {0, BoardSize - 1}
       /\ Raw(k) # << >>
  /\ \E k \in Occupied :
       /\ board[RowOf(k)][ColOf(k)] = P("pawn", "white")
       /\ RowOf(k) = 6
       /\ Len(Raw(k)) = 2
  /\ \E k \in Kings("black") \cup Kings("white") :
       RowOf(k) \in {0, BoardSize - 1} /\ Legal(k) # << >>

\* C24: Strategy contract. RandomAI.selectMove(colour) draws its move from
\* allMoves and returns null when allMoves is empty: every collected move
\* starts on a square holding a piece of that colour and ends on a square of
\* getValidMoves(from) on the current board, and allMoves is empty exactly
\* when no piece of that colour has a legal move.
C24_StrategyContract ==
  \A color \in {"white", "black"} :
    \A s \in {selectMove(board, color)} :
      /\ \A i \in 1..Len(s.allMoves) :
           board[s.allMoves[i].from[1]][s.allMoves[i].from[2]].color = color
      /\ \A k \in Occupied :
           ColorAt(k) = color =>
             {m.to : m \in {x \in Range(s.allMoves) : x.from = <<RowOf(k), ColOf(k)>>}}
               \subseteq Range(Legal(k))
      /\ (s.allMoves = << >>) <=>
           (\A k \in Occupied : ColorAt(k) = color => Legal(k) = << >>)

\* After a move the side to move has pieces but selectMove has nothing to
\* return for it, while it has moves to return for the other side.
C24_Witness ==
  /\ steps > 0
  /\ selectMove(board, currentPlayer).allMoves = << >>
  /\ selectMove(board, other(currentPlayer)).allMoves # << >>

\* Games against the computer, white to move: 1.e3 a5 2.Qh5 Ra6 3.Qxa5 h5 4.h4
\* Rah6 5.Qxc7 f6 6.Qxd7+ Kf7 7.Qxb7 Qd3 8.Qxb8 Qh7 9.Qxc8 Kg6 (10.Qe6
\* leaves black without a move), and 1.f3 e5 (2.g4 allows Qh4 mate).
ComputerScenarios ==
  << [line |-> StalemateLine, clicks |-> StalemateClicks, timers |-> 0],
     [line |-> MateLine, clicks |-> MateClicks, timers |-> 0] >>

ComputerInit ==
  \E i \in 1..Len(ComputerScenarios) :
    \E s \in {Replay(ComputerScenarios[i].line, Len(ComputerScenarios[i].line))} :
       /\ s.legal
       /\ board = s.board
       /\ currentPlayer = s.currentPlayer
       /\ moveHistory = s.moveHistory
       /\ selectedCell = NoCell
       /\ validMoves = << >>
       /\ gameMode = "computer"
       /\ status = "None"
       /\ timers = ComputerScenarios[i].timers
       /\ threw = FALSE
       /\ steps = 0
       /\ clicks = ComputerScenarios[i].clicks
       /\ window = IdleWindow

ComputerSpec == ComputerInit /\ [][Next]_vars

\* C25: When the strategy returns no move, makeComputerMove changes no game
\* state: board, currentPlayer and moveHistory stay as they were, the side to
\* move remains the computer's colour, and only the status message is set.
C25_NoMoveNoChange ==
  [][(/\ timers' = timers - 1
      /\ currentPlayer = computerColor
      /\ selectMove(board, computerColor).allMoves = << >>)
     => /\ board' = board
        /\ currentPlayer' = computerColor
        /\ moveHistory' = moveHistory
        /\ gameMode' = gameMode
        /\ status' = "NoValidMoves"]_vars

C25_Witness ==
  /\ status = "NoValidMoves"
  /\ currentPlayer = computerColor
  /\ gameMode = "computer"
  /\ moveHistory # << >>
  /\ timers = 0

C27_UndoRestores ==
  [][(status' = "Undone" /\ Len(moveHistory') < Len(moveHistory)) =>
       /\ moveHistory' = SubSeq(moveHistory, 1, Len(moveHistory) - 1)
       /\ board'[LastMove.from[1]][LastMove.from[2]] = LastMove.piece
       /\ board'[LastMove.to[1]][LastMove.to[2]] = LastMove.capturedPiece
       /\ \A sq \in Squares \ {LastMove.from, LastMove.to} :
            board'[sq[1]][sq[2]] = board[sq[1]][sq[2]]
       /\ currentPlayer' = LastMove.piece.color]_vars

----------------------------------------------------------------------------
\* The selecting click step by step: handleCellClick calls getValidMoves,
\* whose filter calls wouldBeInCheck once for every raw move; window holds the
\* position inside that call.

\* Every call of the class is synchronous: a handler or a setTimeout callback
\* starts only when no other call is on the stack.
CallStackEmptyAlways == TRUE

CallStackEmpty == ~window.active

\* The clicks for which handleCellClick reaches getValidMoves.
Selects(row, col) ==
  /\ ~(gameMode = "computer" /\ currentPlayer = computerColor)
  /\ ~(selectedCell # NoCell /\ <<row, col>> \in Range(validMoves))
  /\ board[row][col].color = currentPlayer

\* handleCellClick up to the filter of getValidMoves.
getValidMovesCall(row, col) ==
  /\ CallStackEmpty
  /\ Selects(row, col)
  /\ selectedCell' = <<row, col>>
  /\ window' = [active |-> TRUE, cell |-> <<row, col>>,
                raw |-> getValidMovesWithoutCheckTest(board, row, col),
                i |-> 1, kept |-> << >>, sim |-> FALSE,
                piece |-> Null, capturedPiece |-> Null]
  /\ threw' = FALSE
  /\ UNCHANGED <<board, currentPlayer, validMoves, moveHistory, gameMode, status,
                 timers, steps, clicks>>

\* wouldBeInCheck, "Simulate the move".
simulateMove ==
  /\ window.active
  /\ ~window.sim
  /\ window.i <= Len(window.raw)
  /\ LET from == window.cell
         to == window.raw[window.i]
     IN /\ board' = [[board EXCEPT ![to[1]][to[2]] = board[from[1]][from[2]]]
                       EXCEPT ![from[1]][from[2]] = Null]
        /\ window' = [window EXCEPT !.sim = TRUE,
                                    !.piece = board[from[1]][from[2]],
                                    !.capturedPiece = board[to[1]][to[2]]]
  /\ UNCHANGED <<currentPlayer, selectedCell, validMoves, moveHistory, gameMode,
                 status, timers, threw, steps, clicks>>

\* wouldBeInCheck, isInCheck on the simulated board and "Undo the move"; the
\* filter keeps the move when the answer is false.
revertMove ==
  /\ window.sim
  /\ LET from == window.cell
         to == window.raw[window.i]
         inCheck == isInCheck(board, window.piece.color)
     IN /\ board' = [[board EXCEPT ![from[1]][from[2]] = window.piece]
                       EXCEPT ![to[1]][to[2]] = window.capturedPiece]
        /\ window' = [window EXCEPT !.sim = FALSE,
                                    !.i = @ + 1,
                                    !.kept = IF inCheck THEN @ ELSE Append(@, to)]
  /\ UNCHANGED <<currentPlayer, selectedCell, validMoves, moveHistory, gameMode,
                 status, timers, threw, steps, clicks>>

\* getValidMoves returns and handleCellClick stores the result.
getValidMovesReturn ==
  /\ window.active
  /\ ~window.sim
  /\ window.i > Len(window.raw)
  /\ validMoves' = window.kept
  /\ window' = IdleWindow
  /\ UNCHANGED <<board, currentPlayer, selectedCell, moveHistory, gameMode, status,
                 timers, threw, steps, clicks>>

WindowNext ==
  \/ \E sq \in clicks : getValidMovesCall(sq[1], sq[2])
  \/ simulateMove
  \/ revertMove
  \/ getValidMovesReturn
  \/ \E sq \in clicks :
       /\ CallStackEmpty
       /\ ~Selects(sq[1], sq[2])
       /\ handleCellClick(sq[1], sq[2])
       /\ UNCHANGED window
  \/ CallStackEmpty /\ undoMove /\ UNCHANGED window
  \/ CallStackEmpty /\ resetGame /\ UNCHANGED window
  \/ \E mode \in {"human", "computer"} :
       CallStackEmpty /\ changeGameMode(mode) /\ UNCHANGED window
  \/ CallStackEmpty /\ makeComputerMove /\ UNCHANGED window

WindowSpec == StaleInit /\ [][WindowNext]_vars

\* The filter run step by step returns what getValidMoves returns on the
\* board of the call.
WindowRefinesGetValidMoves ==
  (window.active /\ ~window.sim /\ window.i > Len(window.raw)) =>
    window.kept = getValidMoves(board, window.cell[1], window.cell[2]).moves

\* C28: The simulate-then-revert window of wouldBeInCheck is atomic with
\* respect to every other handler: while a simulated move is on the board the
\* only step taken is the revert of that move inside the same call, so no
\* click handler, undoMove, resetGame, changeGameMode or delayed
\* makeComputerMove callback starts or reads the board in the window, and
\* the filter returns the moves of the board it was called on.
C28_WindowAtomic ==
  [][window.sim =>
       /\ window'.active
       /\ ~window'.sim
       /\ window'.cell = window.cell
       /\ board' = [[board EXCEPT ![window.cell[1]][window.cell[2]] = window.piece]
                      EXCEPT ![window.raw[window.i][1]][window.raw[window.i][2]] =
                        window.capturedPiece]
       /\ UNCHANGED <<currentPlayer, selectedCell, validMoves, moveHistory, gameMode,
                      status, timers, steps>>]_vars
  /\ []WindowRefinesGetValidMoves

\* A simulated capture is on the board while a callback is pending and a
\* move could be undone.
C28_Witness ==
  /\ window.sim
  /\ window.capturedPiece # Null
  /\ timers > 0
  /\ moveHistory # << >>
  /\ steps > 0

\* C29: A computer move is applied only in computer mode and only for the
\* computer's colour: whenever a makeComputerMove callback applies a move,
\* gameMode is "computer", currentPlayer is computerColor and the piece moved
\* is of computerColor.
C29_ComputerMoveOnlyInComputerMode ==
  [][(timers' = timers - 1 /\ Len(moveHistory') = Len(moveHistory) + 1) =>
       /\ gameMode = "computer"
       /\ currentPlayer = computerColor
       /\ moveHistory'[Len(moveHistory')].piece.color = computerColor]_vars

\* C30: After a move that is classified Checkmate no computer move follows.
\* While the status is still the Checkmate of the last makeMove (no undoMove,
\* resetGame or later move has replaced it), no makeComputerMove callback
\* applies a move, callbacks scheduled before the checkmating move included.
C30_NoComputerMoveAfterCheckmate ==
  [][~(/\ status = "Checkmate"
       /\ timers' = timers - 1
       /\ Len(moveHistory') = Len(moveHistory) + 1)]_vars

\* C31: In computer mode, while currentPlayer is computerColor, handleCellClick
\* is a no-op: whatever square is clicked, board, currentPlayer, moveHistory,
\* selectedCell and validMoves stay as they were.
C31_ClickIgnoredOnComputerTurn ==
  [][(/\ gameMode = "computer"
      /\ currentPlayer = computerColor
      /\ \E sq \in clicks : handleCellClick(sq[1], sq[2]))
     => UNCHANGED <<board, currentPlayer, moveHistory, selectedCell, validMoves>>]_vars

\* The human has moved, the reply is pending, and a square holding a piece
\* of the side to move can be clicked.
C31_Witness ==
  /\ gameMode = "computer"
  /\ currentPlayer = computerColor
  /\ timers > 0
  /\ steps > 0
  /\ \E sq \in clicks : board[sq[1]][sq[2]].color = currentPlayer

\* It is the computer's turn in computer mode, the last outcome is not a
\* checkmate and the computer has a legal move.
ComputerToReply ==
  /\ gameMode = "computer"
  /\ currentPlayer = computerColor
  /\ status # "Checkmate"
  /\ HasLegalMove(board, computerColor)

\* C32: Computer reply liveness. In computer mode, whenever it is the
\* computer's turn, the last move was not a checkmate and the computer has a
\* legal move, a computer move is eventually applied unless resetGame or
\* undoMove comes first. Only a pending callback applies computer moves, so in
\* every such state a makeComputerMove callback is pending.
C32_ComputerReplyPending == ComputerToReply => timers > 0

\* C33: Selection consistency. In every reachable state where selectedCell is
\* not null, the selected square holds a piece of currentPlayer and validMoves
\* equals getValidMoves(selectedCell) computed on the current board.
C33_SelectionConsistent ==
  selectedCell # NoCell =>
    /\ board[selectedCell[1]][selectedCell[2]].color = currentPlayer
    /\ validMoves = getValidMoves(board, selectedCell[1], selectedCell[2]).moves

\* C34: Parity invariant. In every reachable state currentPlayer is white iff
\* moveHistory, which resetGame empties, has even length.
C34_Parity == (currentPlayer = "white") <=> (Len(moveHistory) % 2 = 0)

\* C35: The side that is not to move is never in check: in every reachable
\* state isInCheck of the opponent of currentPlayer is false.
C35_WaitingSideNotInCheck == ~isInCheck(board, other(currentPlayer))

\* 1.h3 e6 2.a4 Qh4 3.Ra3 Qxa4 4.h4 h5 5.Rah3 Qxc2 6.f3 Qxd2+ 7.Kf2 Qxb2
\* 8.Qd6 Qxb1 9.Qh2 Qxc1 10.Kg3 (10...Qe3 leaves white without a move), with
\* c1 e3 / a7 a6 / g3 to click.
WhiteStalemateLine ==
  << <<6, 7, 5, 7>>, <<1, 4, 2, 4>>, <<6, 0, 4, 0>>, <<0, 3, 4, 7>>, <<7, 0, 5, 0>>,
     <<4, 7, 4, 0>>, <<5, 7, 4, 7>>, <<1, 7, 3, 7>>, <<5, 0, 5, 7>>, <<4, 0, 6, 2>>,
     <<6, 5, 5, 5>>, <<6, 2, 6, 3>>, <<7, 4, 6, 5>>, <<6, 3, 6, 1>>, <<7, 3, 2, 3>>,
     <<6, 1, 7, 1>>, <<2, 3, 6, 7>>, <<7, 1, 7, 2>>, <<6, 5, 5, 6>> >>
WhiteStalemateClicks == {<<7, 2>>, <<5, 4>>, <<1, 0>>, <<2, 0>>, <<5, 6>>}

\* The game above clicked through in human mode while one callback of an
\* earlier game against the computer is pending.
WhiteStalemateScenarios ==
  << [line |-> WhiteStalemateLine, clicks |-> WhiteStalemateClicks, timers |-> 1] >>

WhiteStalemateInit == InitFrom(WhiteStalemateScenarios)

WhiteStalemateSpec == WhiteStalemateInit /\ [][Next]_vars

\* The colour is not in check and has no legal move.
Stalemated(b, color) == ~isInCheck(b, color) /\ ~HasLegalMove(b, color)

\* C36: Stalemate is not detected. A makeMove that leaves the opponent not in
\* check and without a legal move is classified Normal and hands the turn to
\* that opponent; while the side to move is in that situation no click applies
\* a move, and only undoMove or resetGame (also as part of changeGameMode)
\* change the board.
C36_StalemateNotDetected ==
  [][/\ (/\ Len(moveHistory') = Len(moveHistory) + 1
         /\ ~threw'
         /\ Stalemated(board', other(currentPlayer)))
        => (status' = "Normal" /\ currentPlayer' = other(currentPlayer))
     /\ (/\ (Len(moveHistory') > Len(moveHistory) \/ board' # board)
         /\ Stalemated(board, currentPlayer))
        => status' \in {"Undone", "Reset", "StartedComputer", "StartedHuman"}]_vars

\* C37: isInCheck(colour) is false on every board that holds no king of that
\* colour, and on such a board getValidMoves of each of that colour's pieces
\* returns its raw moves.
C37_NoKingNoCheck ==
  \A color \in {"white", "black"} :
    Kings(color) = {} =>
      /\ ~isInCheck(board, color)
      /\ \A k \in Occupied : ColorAt(k) = color => Legal(k) = Raw(k)

\* A king has been captured and its side still has pieces that can move.
C37_Witness ==
  /\ steps > 0
  /\ moveHistory # << >>
  /\ LastMove.capturedPiece.type = "king"
  /\ Kings(LastMove.capturedPiece.color) = {}
  /\ \E k \in Occupied : ColorAt(k) = LastMove.capturedPiece.color /\ Raw(k) # << >>

\* C38: No pawn on a back rank. In every reachable state every pawn stands on
\* one of the rows 1..6, every recorded pawn move went to a smaller row for
\* white and to a greater row for black, and the cells getPawnMoves indexes,
\* the two-step test included, lie inside the grid.
C38_NoPawnOnBackRank ==
  /\ \A k \in Occupied :
       board[RowOf(k)][ColOf(k)].type = "pawn" =>
         /\ RowOf(k) \in 1..(BoardSize - 2)
         /\ PawnReads(board, RowOf(k), ColOf(k), ColorAt(k)) \subseteq Squares
  /\ \A i \in 1..Len(moveHistory) :
       moveHistory[i].piece.type = "pawn" =>
         IF moveHistory[i].piece.color = "white"
         THEN moveHistory[i].to[1] < moveHistory[i].from[1]
         ELSE moveHistory[i].to[1] > moveHistory[i].from[1]

====
